---- MODULE Spec2Model ----
(***************************************************************************)
(* Model of the vectorbtpro expert agent backend                           *)
(* (src/agent_system/agent_backend.py).                                    *)
(*                                                                         *)
(*   SpecSplit  the text chunker VectorBTProExpert._split_text             *)
(*   SpecGen    prompt assembly and response normalisation of              *)
(*              VectorBTProExpert.generate_response                        *)
(*   Spec       the conversation service: initialize calls (HTTP and the   *)
(*              startup task) with indexing, queries and status requests,  *)
(*              interleaved at the awaits of the handlers; one query or    *)
(*              status request is served at a time                         *)
(*   SpecIndex  initialize calls made one after the other, over every      *)
(*              bounded corpus                                             *)
(*   SpecChat   the websocket /chat channel next to initialize calls       *)
(*   SpecSearch search_knowledge_base, on its own and within               *)
(*              generate_response                                          *)
(*   SpecExtract  extract_python_code on texts of prose and fenced blocks  *)
(*   SpecNotebook the history of the notebook magics and widget, and the   *)
(*              widget's buttons (src/agent_system/jupyter_extension.py)   *)
(***************************************************************************)
EXTENDS Integers, Sequences, FiniteSets, TLC

\* Python's None and a present value, for fields that may hold either
None == <<>>
Some(v) == <<v>>
Val(o) == o[1]

\* ------------------------------------------------------------------------
\* Bounds of the model
\* ------------------------------------------------------------------------
MaxTextLen == 6
MaxChunkSize == 4
MaxOverlap == 10
MaxHistory == 2
MaxRetrieved == 2
MaxParts == 2
MaxFiles == 2
MaxChunks == 2
MaxCalls == 2
MaxInFlight == 2
MaxFrames == 2
MaxAttempts == 7
MaxBlocks == 2
MaxButtons == 2
MaxClicks == 2

VARIABLES
  split_pc,      \* "call" before _split_text is applied, "done" after
  split_args,    \* [text, max_chunk_size, overlap] of the call
  split_ret,     \* what the call produced
  gen_pc,        \* "call" before generate_response is applied, "done" after
  gen_args,      \* [user_query, rag_context_chunks, context, outcome]
  gen_ret,       \* [final_prompt, reply] of the call
  corpus,        \* the markdown files below the docs directory, in rglob order
  store,         \* the entries of the persistent collection "vectorbtpro_docs"
  agent,         \* the global agent: None or the session of a call
  session,       \* the VectorBTProExpert object each initialize call made
  call,          \* the initialize calls (HTTP and the startup task)
  assigned,      \* the calls that assigned agent, in the order they did
  query,         \* the POST /query request in progress
  status,        \* the GET /status request in progress
  chat,          \* the websocket /chat channel and its handler
  notebook,      \* the notebook client: history of the magics or the widget
  fn             \* a function applied on its own: [pc, args, ret]

split_vars == <<split_pc, split_args, split_ret>>
gen_vars == <<gen_pc, gen_args, gen_ret>>
svc_vars == <<corpus, store, agent, session, call, assigned, query, status>>
vars == <<split_pc, split_args, split_ret, gen_pc, gen_args, gen_ret,
          corpus, store, agent, session, call, assigned, query, status,
          chat, notebook, fn>>

\* The components a specification does not exercise stay as constructed.
SplitIdle == split_pc = "idle" /\ split_args = None /\ split_ret = None
GenIdle == gen_pc = "idle" /\ gen_args = None /\ gen_ret = None
ServiceIdle ==
  /\ corpus = None /\ store = None /\ agent = None /\ session = None
  /\ call = None /\ assigned = None /\ query = None /\ status = None
ChatIdle == chat = None
NotebookIdle == notebook = None
FnIdle == fn = None

\* ------------------------------------------------------------------------
\* Strings as sequences of characters
\* ------------------------------------------------------------------------
Chars == {" ", "a", "b"}

RECURSIVE SeqsUpTo(_, _)
SeqsUpTo(S, n) ==
  IF n = 0 THEN {<<>>}
  ELSE LET shorter == SeqsUpTo(S, n - 1)
       IN  shorter \cup {Append(s, c) : s \in {t \in shorter : Len(t) = n - 1}, c \in S}

Texts == SeqsUpTo(Chars, MaxTextLen)

Max(a, b) == IF a >= b THEN a ELSE b
Min(a, b) == IF a <= b THEN a ELSE b

\* str.split() with no argument: the maximal runs of non-whitespace
\* characters, in order; leading, trailing and repeated whitespace give no
\* empty word.
RECURSIVE str_split_from(_, _, _)
str_split_from(text, word, acc) ==
  IF text = <<>>
    THEN (IF word = <<>> THEN acc ELSE Append(acc, word))
    ELSE IF Head(text) = " "
      THEN str_split_from(Tail(text), <<>>,
                          IF word = <<>> THEN acc ELSE Append(acc, word))
      ELSE str_split_from(Tail(text), Append(word, Head(text)), acc)

str_split(text) == str_split_from(text, <<>>, <<>>)

\* " ".join(ws)
RECURSIVE str_join(_)
str_join(ws) ==
  IF ws = <<>> THEN <<>>
  ELSE IF Len(ws) = 1 THEN ws[1]
  ELSE ws[1] \o <<" ">> \o str_join(Tail(ws))

\* ws[:n] and ws[n:] of Python, for n >= 0
Prefix(ws, n) == SubSeq(ws, 1, Min(n, Len(ws)))
Suffix(ws, n) == SubSeq(ws, Min(n, Len(ws)) + 1, Len(ws))

\* ------------------------------------------------------------------------
\* VectorBTProExpert._split_text
\* ------------------------------------------------------------------------
\* The loop state: chunks closed so far, current_chunk (a list of words),
\* current_length, whether the call raised, and for every chunk the number
\* of its leading words that were copied from the previous chunk.
SplitStart ==
  [chunks |-> <<>>, current_chunk |-> <<>>, current_length |-> 0,
   fault |-> FALSE, carried |-> <<>>, cur_carried |-> 0]

\* len(" ".join(words[:overlap//5])), the divisor of line 87
OverlapDivisor(words, overlap) == Len(str_join(Prefix(words, overlap \div 5)))

\* The else branch with the word that did not fit left out of the new chunk.
CloseChunk_DropsWord(st, words, word, overlap) ==
  LET divisor == OverlapDivisor(words, overlap) IN
  IF divisor = 0
    THEN [st EXCEPT !.chunks = Append(st.chunks, str_join(st.current_chunk)),
                    !.carried = Append(st.carried, st.cur_carried),
                    !.fault = TRUE]
    ELSE
      LET overlap_start_index ==
            Max(0, Len(st.current_chunk) - (overlap \div divisor))
          kept == Suffix(st.current_chunk, overlap_start_index)
      IN  [st EXCEPT !.chunks = Append(st.chunks, str_join(st.current_chunk)),
                     !.carried = Append(st.carried, st.cur_carried),
                     !.current_chunk = kept,
                     !.current_length = Len(str_join(kept)),
                     !.cur_carried = Len(kept)]

\* The else branch of the loop body: close the chunk, seed the next one
\* with the overlap words and the word that did not fit.
CloseChunk(st, words, word, overlap) ==
  LET divisor == OverlapDivisor(words, overlap) IN
  IF divisor = 0
    THEN [st EXCEPT !.chunks = Append(st.chunks, str_join(st.current_chunk)),
                    !.carried = Append(st.carried, st.cur_carried),
                    !.fault = TRUE]
    ELSE
      LET overlap_start_index ==
            Max(0, Len(st.current_chunk) - (overlap \div divisor))
          kept == Suffix(st.current_chunk, overlap_start_index)
          next_chunk == kept \o <<word>>
      IN  [st EXCEPT !.chunks = Append(st.chunks, str_join(st.current_chunk)),
                     !.carried = Append(st.carried, st.cur_carried),
                     !.current_chunk = next_chunk,
                     !.current_length = Len(str_join(next_chunk)),
                     !.cur_carried = Len(kept)]

\* One iteration of "for word in words"
SplitStep(st, words, word, max_chunk_size, overlap) ==
  IF st.current_length + Len(word) + 1 <= max_chunk_size
    THEN [st EXCEPT !.current_chunk = Append(st.current_chunk, word),
                    !.current_length = st.current_length + Len(word) + 1]
    ELSE CloseChunk(st, words, word, overlap)

RECURSIVE SplitLoop(_, _, _, _, _)
SplitLoop(st, words, i, max_chunk_size, overlap) ==
  IF st.fault \/ i > Len(words) THEN st
  ELSE SplitLoop(SplitStep(st, words, words[i], max_chunk_size, overlap),
                 words, i + 1, max_chunk_size, overlap)

\* The value of the call: raised tells whether it ended in an exception
\* (ZeroDivisionError), chunks is the returned list, carried[i] the number
\* of leading words of chunks[i] taken over from chunks[i-1].
split_text(text, max_chunk_size, overlap) ==
  IF text = <<>> THEN [raised |-> FALSE, chunks |-> <<>>, carried |-> <<>>]
  ELSE
    LET words == str_split(text) IN
    IF words = <<>> THEN [raised |-> FALSE, chunks |-> <<>>, carried |-> <<>>]
    ELSE
      LET st == SplitLoop(SplitStart, words, 1, max_chunk_size, overlap) IN
      IF st.fault THEN [raised |-> TRUE, chunks |-> <<>>, carried |-> <<>>]
      ELSE IF st.current_chunk # <<>>
        THEN [raised |-> FALSE,
              chunks |-> Append(st.chunks, str_join(st.current_chunk)),
              carried |-> Append(st.carried, st.cur_carried)]
        ELSE [raised |-> FALSE, chunks |-> st.chunks, carried |-> st.carried]

\* ------------------------------------------------------------------------
\* SpecSplit: _split_text applied to every bounded input
\* ------------------------------------------------------------------------
SplitInit ==
  /\ split_pc = "call"
  /\ split_args \in [text : Texts,
                     max_chunk_size : 1..MaxChunkSize,
                     overlap : 0..MaxOverlap]
  /\ split_ret = None
  /\ GenIdle
  /\ ServiceIdle
  /\ ChatIdle
  /\ NotebookIdle
  /\ FnIdle

SplitCall ==
  /\ split_pc = "call"
  /\ split_ret' = split_text(split_args.text, split_args.max_chunk_size,
                             split_args.overlap)
  /\ split_pc' = "done"
  /\ UNCHANGED <<split_args, gen_vars, svc_vars, chat, notebook, fn>>

SplitNext == SplitCall

SpecSplit == SplitInit /\ [][SplitNext]_vars

SplitDone == split_pc = "done"
SplitReturned == split_pc = "done" /\ ~split_ret.raised

\* C1: for every text, max_chunk_size >= 1 and overlap >= 0, _split_text
\* returns a list of chunks and never faults (no division by zero, no index
\* out of bounds when a chunk is closed and the overlap is computed).
C1_SplitNeverFaults == SplitDone => ~split_ret.raised

\* The longest word of a chunk (0 for the empty chunk)
RECURSIVE MaxWordLen(_)
MaxWordLen(ws) ==
  IF ws = <<>> THEN 0 ELSE Max(Len(Head(ws)), MaxWordLen(Tail(ws)))

\* C2: whenever _split_text returns, every chunk is at most max_chunk_size
\* plus the length of one word of that chunk long, overlap words included.
C2_ChunkSizeBound ==
  SplitReturned =>
    \A i \in 1..Len(split_ret.chunks) :
      Len(split_ret.chunks[i]) <=
        split_args.max_chunk_size + MaxWordLen(str_split(split_ret.chunks[i]))

\* The words of the chunks from position i on, without the leading words
\* each chunk took over from its predecessor.
RECURSIVE OwnWords(_, _, _)
OwnWords(chunks, carried, i) ==
  IF i > Len(chunks) THEN <<>>
  ELSE Suffix(str_split(chunks[i]), carried[i]) \o OwnWords(chunks, carried, i + 1)

\* The carried-over words of chunk i are the last words of chunk i-1.
CarriedFromPrevious(chunks, carried) ==
  /\ Len(carried) = Len(chunks)
  /\ \A i \in 1..Len(chunks) :
       LET ws == str_split(chunks[i]) IN
       /\ carried[i] <= Len(ws)
       /\ IF i = 1 THEN carried[i] = 0
          ELSE LET prev == str_split(chunks[i - 1]) IN
               /\ carried[i] <= Len(prev)
               /\ Prefix(ws, carried[i]) = Suffix(prev, Len(prev) - carried[i])

\* C3: for a non-empty input for which _split_text returns, dropping the
\* carried-over leading words of every chunk after the first and
\* concatenating the rest gives exactly the whitespace-split words of the
\* input, in order.
C3_WordsReconstructed ==
  (SplitReturned /\ split_args.text # <<>>) =>
    /\ CarriedFromPrevious(split_ret.chunks, split_ret.carried)
    /\ OwnWords(split_ret.chunks, split_ret.carried, 1) = str_split(split_args.text)

\* A returned split of several chunks, one of which starts with overlap words
C3_Witness ==
  /\ SplitReturned
  /\ Len(split_ret.chunks) >= 3
  /\ \E i \in 1..Len(split_ret.chunks) : split_ret.carried[i] > 0


\* ------------------------------------------------------------------------
\* Text of prompts and replies.  A text is a sequence of pieces; a line
\* break, a code fence and the tag "python" are always pieces of their own,
\* so that concatenation is \o and a text can be searched for them.
\* ------------------------------------------------------------------------
\* The code fence of three backquotes (a TLA+ string cannot hold one).
FENCE == "'''"

DEFAULT_SYSTEM_PROMPT ==
  << "You are an expert in vectorbt and vectorbtpro, a Python library for backtesting and analyzing trading strategies.", "\n",
     "Your goal is to provide accurate, helpful, and code-centric answers to users' questions about vectorbt and vectorbtpro.", "\n",
     "When a user asks a question, you will be given relevant context from the vectorbtpro documentation.", "\n",
     "Use this context to inform your answer. If the context is insufficient or the question is ambiguous, ask clarifying questions.", "\n",
     "If the user's query can be best answered with a code example, provide a complete, runnable Python code snippet using vectorbtpro.", "\n",
     "Ensure the code is well-commented and directly addresses the user's query.", "\n",
     "If the query is about a concept, explain it clearly and concisely, referencing the documentation where appropriate.", "\n",
     "Do not make up information. If you don't know the answer, say so.", "\n",
     "You can also be asked to explain code, debug code, or convert code from other libraries to vectorbtpro.", "\n",
     "When providing code, always ensure it is for vectorbtpro.", "\n",
     "You are interacting with a user through a JupyterLab extension. The user can execute the code you provide.", "\n",
     "Focus on being helpful and providing practical, actionable solutions.", "\n",
     "If you are providing a Python code block, make sure it is enclosed in triple backticks with the language specifier, like this:", "\n",
     FENCE, "python", "\n",
     "# Your Python code here", "\n",
     FENCE, "\n" >>

\* sep.join(parts) for a list of texts
RECURSIVE join(_, _)
join(parts, sep) ==
  IF parts = <<>> THEN <<>>
  ELSE IF Len(parts) = 1 THEN parts[1]
  ELSE parts[1] \o sep \o join(Tail(parts), sep)

\* A history entry is a dict; it is well formed when it has both keys.
WellFormedTurn(turn) == "role" \in DOMAIN turn /\ "content" \in DOMAIN turn

\* The entries generate_response renders, "role: content" each
RECURSIVE RenderTurns(_)
RenderTurns(context) ==
  IF context = <<>> THEN <<>>
  ELSE LET turn == Head(context) IN
       (IF WellFormedTurn(turn)
          THEN << turn["role"] \o <<": ">> \o turn["content"] >>
          ELSE <<>>) \o RenderTurns(Tail(context))

\* generate_response, lines 211-229: the list prompt_parts
prompt_parts(system_prompt, rag_context_chunks, context, user_query) ==
  LET rag_context_str == join(rag_context_chunks, <<"\n", "\n">>)
      with_rag ==
        IF rag_context_str # <<>>
          THEN << system_prompt,
                  <<"\n", "Relevant context from documentation:", "\n">>,
                  rag_context_str >>
          ELSE << system_prompt >>
      with_history ==
        IF context # None /\ Val(context) # <<>>
          THEN with_rag \o << <<"\n", "Previous conversation history:", "\n">> >>
                        \o RenderTurns(Val(context))
          ELSE with_rag
  IN  with_history \o << <<"\n", "User query: ">> \o user_query,
                         <<"\n", "Answer:", "\n">> >>

\* The prompt with the parts concatenated directly, no separator between
\* them.
final_prompt_Concatenated(system_prompt, rag_context_chunks, context, user_query) ==
  join(prompt_parts(system_prompt, rag_context_chunks, context, user_query),
       <<>>)

\* generate_response, line 231: "\n".join(prompt_parts)
final_prompt(system_prompt, rag_context_chunks, context, user_query) ==
  join(prompt_parts(system_prompt, rag_context_chunks, context, user_query),
       <<"\n">>)

\* The fixed strings of generate_response
NOT_INITIALIZED_ERROR ==
  <<"Error: Agent not initialized. Please initialize first.">>
CONNECT_ERROR == <<"Error: Could not connect to the generative model.">>
FALLBACK_RESPONSE ==
  <<"Sorry, I could not generate a response at this time (empty or unexpected response structure).">>
BLOCKED_PREFIX ==
  "Sorry, I could not generate a response. The request was blocked due to: "
\* The f-string of line 250; block_reason is rendered by its str()
BlockedResponse(block_reason) ==
  <<BLOCKED_PREFIX, ToString(block_reason), ".">>

\* What gen_model.generate_content can produce: an exception, or a response
\* object (None included) with candidates and prompt_feedback.
HasParts(response) ==
  /\ response # None
  /\ Val(response).candidates # <<>>
  /\ Val(response).candidates[1].content # None
  /\ Val(Val(response).candidates[1].content).parts # <<>>

\* block_reason 0 is BLOCK_REASON_UNSPECIFIED, which is falsy
HasBlockReason(response) ==
  /\ response # None
  /\ Val(response).prompt_feedback # None
  /\ Val(Val(response).prompt_feedback).block_reason # 0

PartsOf(response) == Val(Val(response).candidates[1].content).parts
BlockReasonOf(response) == Val(Val(response).prompt_feedback).block_reason

\* The try block without its handler: an exception of the model call
\* leaves generate_response.
model_response_text_Unhandled(outcome) ==
  IF outcome.kind = "raise"
    THEN [raised |-> TRUE, text |-> <<>>]
    ELSE LET response == outcome.response IN
         IF HasParts(response)
           THEN [raised |-> FALSE, text |-> join(PartsOf(response), <<>>)]
           ELSE IF HasBlockReason(response)
             THEN [raised |-> FALSE,
                   text |-> BlockedResponse(BlockReasonOf(response))]
             ELSE [raised |-> FALSE, text |-> FALLBACK_RESPONSE]

\* generate_response, the try block of lines 235-259: the string returned
\* for an outcome of the model call, and whether an exception leaves it.
model_response_text(outcome) ==
  IF outcome.kind = "raise"
    THEN [raised |-> FALSE, text |-> CONNECT_ERROR]
    ELSE LET response == outcome.response IN
         IF HasParts(response)
           THEN [raised |-> FALSE, text |-> join(PartsOf(response), <<>>)]
           ELSE IF HasBlockReason(response)
             THEN [raised |-> FALSE,
                   text |-> BlockedResponse(BlockReasonOf(response))]
             ELSE [raised |-> FALSE, text |-> FALLBACK_RESPONSE]

\* ------------------------------------------------------------------------
\* Inputs of generate_response
\* ------------------------------------------------------------------------
Queries == {<<"Q">>, <<"how", " ", "so?">>}
ChunkTexts == {<<"doc A">>, <<>>}
Turns ==
  { [role |-> <<"user">>, content |-> <<"hi">>],
    [role |-> <<"assistant">>, content |-> <<"ok">>],
    [role |-> <<"user">>] }
Contexts == {None} \cup {Some(c) : c \in SeqsUpTo(Turns, MaxHistory)}
PartTexts ==
  { <<"Sure.", " ">>, <<FENCE, "python", "\n", "x = 1", "\n", FENCE>> }
PartLists == SeqsUpTo(PartTexts, MaxParts)
CandidateLists ==
  {<<>>, <<[content |-> None]>>}
    \cup {<<[content |-> Some([parts |-> ps])]>> : ps \in PartLists}
BlockReasons == 0..2
Responses ==
  {None} \cup
  {Some(r) : r \in [candidates : CandidateLists,
                    prompt_feedback : {None} \cup
                      {Some(f) : f \in [block_reason : BlockReasons]}]}
ModelOutcomes ==
  {[kind |-> "raise"]} \cup {[kind |-> "return", response |-> r] : r \in Responses}

\* ------------------------------------------------------------------------
\* SpecGen: generate_response of an initialized session, applied to every
\* bounded retrieval result, history, query and outcome of the model call
\* ------------------------------------------------------------------------
GenInit ==
  /\ gen_pc = "call"
  /\ gen_args \in [user_query : Queries,
                   rag_context_chunks : SeqsUpTo(ChunkTexts, MaxRetrieved),
                   context : Contexts,
                   outcome : ModelOutcomes]
  /\ gen_ret = None
  /\ SplitIdle
  /\ ServiceIdle
  /\ ChatIdle
  /\ NotebookIdle
  /\ FnIdle

GenCall ==
  /\ gen_pc = "call"
  /\ gen_ret' =
       [final_prompt |-> final_prompt(DEFAULT_SYSTEM_PROMPT,
                                      gen_args.rag_context_chunks,
                                      gen_args.context, gen_args.user_query),
        reply |-> model_response_text(gen_args.outcome)]
  /\ gen_pc' = "done"
  /\ UNCHANGED <<gen_args, split_vars, svc_vars, chat, notebook, fn>>

GenNext == GenCall

SpecGen == GenInit /\ [][GenNext]_vars

GenDone == gen_pc = "done"

\* C7 (as stated): with no retrieved chunks and an empty history the prompt
\* is exactly sys followed by "\nUser query: Q\nAnswer:\n", with no other
\* character between the parts.
C7_PromptExact ==
  (GenDone /\ gen_args.rag_context_chunks = <<>>
           /\ gen_args.context \in {None, Some(<<>>)}) =>
    gen_ret.final_prompt =
      DEFAULT_SYSTEM_PROMPT \o <<"\n", "User query: ">> \o gen_args.user_query
                            \o <<"\n", "Answer:", "\n">>

\* C7 (amended): with no retrieved chunks and an empty history the prompt is
\* exactly sys followed by "\n\nUser query: Q\n\nAnswer:\n": the context and
\* history blocks are omitted and the three parts sys, "\nUser query: Q" and
\* "\nAnswer:\n" are joined by one line break each.
C7_PromptJoined ==
  (GenDone /\ gen_args.rag_context_chunks = <<>>
           /\ gen_args.context \in {None, Some(<<>>)}) =>
    gen_ret.final_prompt =
      DEFAULT_SYSTEM_PROMPT \o <<"\n", "\n", "User query: ">>
                            \o gen_args.user_query
                            \o <<"\n", "\n", "Answer:", "\n">>

C7_Witness ==
  /\ GenDone
  /\ gen_args.rag_context_chunks = <<>>
  /\ gen_args.context = Some(<<>>)
  /\ gen_args.user_query = <<"Q">>

\* Whether piece p occurs in text
Contains(text, p) == \E i \in 1..Len(text) : text[i] = p

\* C8: every outcome of the model call becomes a returned string and no
\* exception leaves generate_response: content parts give the concatenation
\* of their text, a block reason without parts gives a string holding the
\* block reason, an empty or unexpected payload gives the fixed fallback
\* string, an exception of the call gives the fixed connection-error string.
C8_OutcomeNormalized ==
  GenDone =>
    LET o == gen_args.outcome
        r == gen_ret.reply
    IN  /\ ~r.raised
        /\ o.kind = "raise" => r.text = CONNECT_ERROR
        /\ o.kind = "return" =>
             LET resp == o.response
                 parts == IF resp # None /\ Val(resp).candidates # <<>>
                             /\ Val(resp).candidates[1].content # None
                          THEN Val(Val(resp).candidates[1].content).parts
                          ELSE <<>>
                 reason == IF resp # None /\ Val(resp).prompt_feedback # None
                           THEN Val(Val(resp).prompt_feedback).block_reason
                           ELSE 0
             IN  /\ parts # <<>> => r.text = join(parts, <<>>)
                 /\ (parts = <<>> /\ reason # 0) =>
                      /\ Contains(r.text, ToString(reason))
                      /\ Head(r.text) = BLOCKED_PREFIX
                 /\ (parts = <<>> /\ reason = 0) => r.text = FALLBACK_RESPONSE

C8_Witness ==
  /\ GenDone
  /\ gen_args.outcome.kind = "return"
  /\ gen_args.outcome.response # None
  /\ Val(gen_args.outcome.response).candidates
       = <<[content |-> Some([parts |-> <<>>])]>>
  /\ HasBlockReason(gen_args.outcome.response)
  /\ BlockReasonOf(gen_args.outcome.response) = 2
  /\ gen_ret.reply.text = <<BLOCKED_PREFIX, "2", ".">>

\* ------------------------------------------------------------------------
\* extract_python_code
\* ------------------------------------------------------------------------
IsWhitespace(p) == p \in {" ", "\n"}

\* str.strip()
RECURSIVE lstrip(_)
lstrip(t) == IF t # <<>> /\ IsWhitespace(Head(t)) THEN lstrip(Tail(t)) ELSE t
RECURSIVE rstrip(_)
rstrip(t) ==
  IF t # <<>> /\ IsWhitespace(t[Len(t)]) THEN rstrip(SubSeq(t, 1, Len(t) - 1))
  ELSE t
strip(t) == rstrip(lstrip(t))

\* Positions where the opening "```python\n" of the pattern starts
OpeningAt(text, p) ==
  /\ p + 2 <= Len(text)
  /\ text[p] = FENCE /\ text[p + 1] = "python" /\ text[p + 2] = "\n"
\* Positions where the closing "\n```" of the pattern starts
ClosingAt(text, e) ==
  /\ e + 1 <= Len(text)
  /\ text[e] = "\n" /\ text[e + 1] = FENCE

\* re.search(r"```python\n(.*?)\n```", text, re.DOTALL): the leftmost opening
\* that is followed by a closing, and the nearest closing after it; the
\* result is None or the stripped group 1.
extract_python_code(text) ==
  LET starts == {p \in 1..Len(text) :
                   /\ OpeningAt(text, p)
                   /\ \E e \in (p + 3)..Len(text) : ClosingAt(text, e)}
  IN  IF starts = {} THEN None
      ELSE LET p == CHOOSE x \in starts : \A y \in starts : x <= y
               ends == {e \in (p + 3)..Len(text) : ClosingAt(text, e)}
               e == CHOOSE x \in ends : \A y \in ends : x <= y
           IN  Some(strip(SubSeq(text, p + 3, e - 1)))

\* ------------------------------------------------------------------------
\* The corpus on disk and the persistent collection
\* ------------------------------------------------------------------------
\* docs_path is a path that does not exist, a regular file, a directory
\* without markdown files, or the directory holding the files of corpus.
DocsPaths == {"missing", "file", "empty", "docs"}
PathExists(p) == p # "missing"
PathIsDir(p) == p \in {"empty", "docs"}

\* list(docs_path.rglob("*.md"))
markdown_files(p) == IF p = "docs" THEN corpus ELSE <<>>

\* The markdown files a corpus may hold, in the order rglob lists them
FileNames ==
  << [dir |-> "a", stem |-> "readme"],
     [dir |-> "a", stem |-> "guide"],
     [dir |-> "b", stem |-> "readme"] >>

\* A file cannot be read or converted (read_text, markdown or BeautifulSoup
\* raise), or it yields nchunks chunks when its plain text is split.
FileContents ==
  {[readable |-> FALSE, nchunks |-> 0]}
    \cup {[readable |-> TRUE, nchunks |-> n] : n \in 0..MaxChunks}

RECURSIVE CorporaFrom(_, _)
CorporaFrom(k, n) ==
  IF k > Len(FileNames) \/ n = 0 THEN {<<>>}
  ELSE CorporaFrom(k + 1, n) \cup
       { << [dir |-> FileNames[k].dir, stem |-> FileNames[k].stem,
             readable |-> c.readable, nchunks |-> c.nchunks] >> \o rest :
           c \in FileContents, rest \in CorporaFrom(k + 1, n - 1) }

Corpora == CorporaFrom(1, MaxFiles) \ {<<>>}

\* str(md_file.relative_to(self.docs_path))
RelPath(f) == f.dir \o "/" \o f.stem \o ".md"
\* chunk i (from 0) of _split_text(plain_text) of file f
ChunkText(f, i) == << RelPath(f) \o " chunk " \o ToString(i) >>

\* f"{md_file.stem}_{i}"
doc_id(f, i) == f.stem \o "_" \o ToString(i)

\* The collection is a set of entries [id, document, metadata]
StoreIds(st) == {e.id : e \in st}
\* collection.count()
StoreCount(st) == Cardinality(st)
HasDuplicates(ids) == \E i, j \in 1..Len(ids) : i < j /\ ids[i] = ids[j]
\* collection.add(documents, metadatas, ids) when it does not raise: ids the
\* collection already holds are left as they are
StoreAdd(st, documents, metadatas, ids) ==
  st \cup { [id |-> ids[i], document |-> documents[i], metadata |-> metadatas[i]] :
              i \in {j \in 1..Len(ids) : ids[j] \notin StoreIds(st)} }

\* collection.query(query_texts, n_results): the documents of the n_results
\* nearest entries; the ranking is the store's, here the corpus order
N_RESULTS == 5
RECURSIVE RankedFrom(_, _, _)
RankedFrom(st, k, i) ==
  IF k > Len(corpus) THEN <<>>
  ELSE IF i >= corpus[k].nchunks THEN RankedFrom(st, k + 1, 0)
  ELSE (IF \E e \in st : e.document = ChunkText(corpus[k], i)
              /\ e.metadata = [source |-> RelPath(corpus[k])]
          THEN <<ChunkText(corpus[k], i)>> ELSE <<>>)
       \o RankedFrom(st, k, i + 1)
StoreQuery(st, n_results) == Prefix(RankedFrom(st, 1, 0), n_results)

\* ------------------------------------------------------------------------
\* Sessions (VectorBTProExpert objects) and initialize calls
\* ------------------------------------------------------------------------
Calls == 1..MaxCalls

COLLECTION_NAME == "vectorbtpro_docs"

\* The session of call c before the call constructs it
NoSession ==
  [made |-> FALSE, docs_path |-> "", collection |-> None,
   is_initialized |-> FALSE]

\* The constructor with the flag set from the start
NewSession_Initialized(docs_path) ==
  [made |-> TRUE, docs_path |-> docs_path, collection |-> None,
   is_initialized |-> TRUE]

\* VectorBTProExpert.__init__
NewSession(docs_path) ==
  [made |-> TRUE, docs_path |-> docs_path, collection |-> None,
   is_initialized |-> FALSE]

\* An initialize call: the request, the locals of initialize_knowledge_base,
\* the reply, and a record of what the call did to the store.
IdleCall ==
  [pc |-> "idle", kind |-> "", gemini_api_key |-> "", docs_path |-> "",
   existing_ids |-> {}, documents_to_add |-> <<>>, metadatas_to_add |-> <<>>,
   ids_to_add |-> <<>>, file_idx |-> 0, count_of |-> 0, outcome |-> None,
   ikb |-> "none", submitted |-> <<>>, store_failed |-> FALSE,
   ids_after |-> {}]

InFlight(c) == call[c].pc \notin {"idle", "done"}

Outcome(result, code, detail, kb_count) ==
  [status |-> result, code |-> code, detail |-> detail, kb_count |-> kb_count]

\* The reply for an exception caught at line 344 (HTTP 500) or line 443
\* (logged)
ExceptionOutcome(kind) ==
  IF kind = "http" THEN Outcome("error", 500, "exception", -1)
  ELSE Outcome("error", 0, "exception", -1)

\* Lines 337-341 with a warning in place of the HTTPException
NotInitializedOutcome_Warning(kind) ==
  IF kind = "http" THEN Outcome("warning", 200, "initialization failed", -1)
  ELSE Outcome("warning", 0, "is_initialized is False", -1)

\* Lines 337-341 and 442: the session in agent is not initialized
NotInitializedOutcome(kind) ==
  IF kind = "http" THEN Outcome("error", 500, "initialization failed", -1)
  ELSE Outcome("warning", 0, "is_initialized is False", -1)

\* Lines 322-335 and 440: the reply once kb_count is known; ag is the
\* session in agent at that time
CountedOutcome(kind, ss, ag, kb_count) ==
  IF kind = "auto" THEN Outcome("success", 0, "auto-initialized", kb_count)
  ELSE IF kb_count > 0 THEN Outcome("success", 200, "loaded", kb_count)
  ELSE IF PathExists(ss[ag].docs_path)
          /\ markdown_files(ss[ag].docs_path) = <<>>
    THEN Outcome("warning", 200, "no markdown files", kb_count)
  ELSE IF ~PathExists(ss[ag].docs_path)
    THEN Outcome("warning", 200, "path not found", kb_count)
  ELSE Outcome("warning", 200, "empty or incomplete", kb_count)

\* The caller after initialize_knowledge_base returned, lines 316-320 and
\* 436-439, up to the await of collection.count or to the reply.  ss is the
\* session table as the indexing left it; agent is read again here.
\* how records the way the pass ended: "open failed", "root missing" or
\* "complete".
AfterIndexing(loc, ss, how) ==
  LET ag == Val(agent)
      l1 == [loc EXCEPT !.ikb = how, !.ids_after = StoreIds(store),
                        !.existing_ids = {}, !.documents_to_add = <<>>,
                        !.metadatas_to_add = <<>>, !.ids_to_add = <<>>,
                        !.file_idx = 0]
  IN  IF ss[ag].is_initialized
        THEN IF ss[ag].collection # None
               THEN [l1 EXCEPT !.pc = "count", !.count_of = ag]
               ELSE [l1 EXCEPT !.pc = "done",
                               !.outcome = Some(CountedOutcome(loc.kind, ss, ag, 0))]
        ELSE [l1 EXCEPT !.pc = "done",
                        !.outcome = Some(NotInitializedOutcome(loc.kind))]

\* The loop body without the test for an id that is already stored
RECURSIVE AppendNewChunks_NoSkip(_, _, _)
AppendNewChunks_NoSkip(loc, f, i) ==
  IF i >= f.nchunks THEN loc
  ELSE AppendNewChunks_NoSkip(
         [loc EXCEPT !.documents_to_add = Append(@, ChunkText(f, i)),
                     !.metadatas_to_add = Append(@, [source |-> RelPath(f)]),
                     !.ids_to_add = Append(@, doc_id(f, i))],
         f, i + 1)

\* The body of "for i, chunk in enumerate(chunks)" from ordinal i on
RECURSIVE AppendNewChunks(_, _, _)
AppendNewChunks(loc, f, i) ==
  IF i >= f.nchunks THEN loc
  ELSE IF doc_id(f, i) \in loc.existing_ids
    THEN AppendNewChunks(loc, f, i + 1)
    ELSE AppendNewChunks(
           [loc EXCEPT !.documents_to_add = Append(@, ChunkText(f, i)),
                       !.metadatas_to_add = Append(@, [source |-> RelPath(f)]),
                       !.ids_to_add = Append(@, doc_id(f, i))],
           f, i + 1)

\* After the file loop with line 184 reached only after an add
AfterFiles_FlagOnlyAfterAdd(c, loc) ==
  IF loc.documents_to_add # <<>>
    THEN /\ call' = [call EXCEPT ![c] = [loc EXCEPT !.pc = "add"]]
         /\ UNCHANGED session
    ELSE /\ UNCHANGED session
         /\ call' = [call EXCEPT ![c] = AfterIndexing(loc, session, "complete")]

\* After the file loop, lines 171-185: dispatch the batch add, or finish
AfterFiles(c, loc) ==
  IF loc.documents_to_add # <<>>
    THEN /\ call' = [call EXCEPT ![c] = [loc EXCEPT !.pc = "add"]]
         /\ UNCHANGED session
    ELSE LET ss == [session EXCEPT ![c].is_initialized = TRUE] IN
         /\ session' = ss
         /\ call' = [call EXCEPT ![c] = AfterIndexing(loc, ss, "complete")]

\* The startup task exists once and starts before any request is served
CallKinds(c) == IF c = 1 THEN {"auto", "http"} ELSE {"http"}

\* The assignment kept from replacing a session that is already there
AssignAgent_KeepFirst(prev, c) == IF prev = None THEN Some(c) ELSE prev

\* Line 313 and line 434: agent = VectorBTProExpert(...)
AssignAgent(prev, c) == Some(c)

\* initialize_agent_endpoint and _auto_initialize_agent_impl up to the first
\* await: the credential check, the construction of the session, which may
\* raise, the assignment to agent, and initialize_knowledge_base up to the
\* dispatch of get_or_create_collection.
InitStart(c) ==
  /\ call[c].pc = "idle"
  /\ \A d \in Calls : d < c => call[d].pc # "idle"
  /\ Cardinality({d \in Calls : InFlight(d)}) < MaxInFlight
  /\ \E kind \in CallKinds(c), key \in {"", "key"}, docs_path \in DocsPaths,
        constructed \in BOOLEAN :
       LET loc == [call[c] EXCEPT !.kind = kind, !.gemini_api_key = key,
                                  !.docs_path = docs_path]
       IN  IF key = ""
             THEN /\ docs_path = "docs"
                  /\ constructed
                  /\ call' = [call EXCEPT ![c] =
                       [loc EXCEPT !.pc = "done",
                         !.outcome = Some(IF kind = "http"
                            THEN Outcome("error", 400, "GEMINI_API_KEY is required", -1)
                            ELSE Outcome("skipped", 0, "GEMINI_API_KEY not found", -1))]]
                  /\ UNCHANGED <<agent, session, assigned>>
             ELSE IF ~constructed
               THEN /\ call' = [call EXCEPT ![c] =
                         [loc EXCEPT !.pc = "done",
                                     !.outcome = Some(ExceptionOutcome(kind))]]
                    /\ UNCHANGED <<agent, session, assigned>>
               ELSE /\ session' = [session EXCEPT ![c] = NewSession(docs_path)]
                    /\ agent' = AssignAgent(agent, c)
                    /\ assigned' = Append(assigned, c)
                    /\ call' = [call EXCEPT ![c] =
                         [loc EXCEPT !.pc = "open", !.ikb = "running"]]
  /\ UNCHANGED <<corpus, store, query, status, split_vars, gen_vars, chat, notebook, fn>>

\* get_or_create_collection returned or raised (lines 96-106); on success
\* the path test, the listing of the files and collection.count() of line
\* 127 follow without an await.
InitOpen(c) ==
  /\ call[c].pc = "open"
  /\ \E opened \in BOOLEAN, counted \in BOOLEAN :
       LET loc == call[c]
           p == session[c].docs_path
       IN  IF ~opened
             THEN /\ counted
                  /\ call' = [call EXCEPT ![c] =
                       AfterIndexing([loc EXCEPT !.store_failed = TRUE], session,
                                     "open failed")]
                  /\ UNCHANGED session
             ELSE
               LET s1 == [session EXCEPT ![c].collection = Some(COLLECTION_NAME)] IN
               IF ~PathExists(p) \/ ~PathIsDir(p)
                 THEN /\ counted
                      /\ session' = s1
                      /\ call' = [call EXCEPT ![c] =
                           AfterIndexing(loc, s1, "root missing")]
               ELSE IF markdown_files(p) = <<>>
                 THEN LET s2 == [s1 EXCEPT ![c].is_initialized = TRUE] IN
                      /\ counted
                      /\ session' = s2
                      /\ call' = [call EXCEPT ![c] =
                           AfterIndexing(loc, s2, "complete")]
               ELSE IF ~counted
                 THEN /\ session' = s1
                      /\ call' = [call EXCEPT ![c] =
                           [loc EXCEPT !.pc = "done", !.ikb = "raised",
                                       !.store_failed = TRUE,
                                       !.outcome = Some(ExceptionOutcome(loc.kind))]]
               ELSE /\ session' = s1
                    /\ call' = [call EXCEPT ![c] =
                         IF StoreCount(store) > 0
                           THEN [loc EXCEPT !.pc = "get"]
                           ELSE [loc EXCEPT !.pc = "read", !.file_idx = 1]]
  /\ UNCHANGED <<corpus, store, agent, assigned, query, status,
                 split_vars, gen_vars, chat, notebook, fn>>

\* collection.get(include=[]) returned the stored ids or raised (lines
\* 131-136); the read of the first file is dispatched.
InitGet(c) ==
  /\ call[c].pc = "get"
  /\ \E fetched \in BOOLEAN :
       call' = [call EXCEPT ![c] =
         [@ EXCEPT !.pc = "read", !.file_idx = 1,
                   !.existing_ids = IF fetched THEN StoreIds(store) ELSE {},
                   !.store_failed = @ \/ ~fetched]]
  /\ UNCHANGED <<corpus, store, agent, session, assigned, query, status,
                 split_vars, gen_vars, chat, notebook, fn>>

\* The file loop left at the first file that cannot be read
InitRead_StopsAtFailure(c) ==
  /\ call[c].pc = "read"
  /\ LET loc == call[c]
         files == markdown_files(session[c].docs_path)
         f == files[loc.file_idx]
         l1 == IF f.readable THEN AppendNewChunks(loc, f, 0) ELSE loc
     IN  IF loc.file_idx < Len(files) /\ f.readable
           THEN /\ call' = [call EXCEPT ![c] = [l1 EXCEPT !.file_idx = @ + 1]]
                /\ UNCHANGED session
           ELSE AfterFiles(c, [l1 EXCEPT !.file_idx = Len(files)])
  /\ UNCHANGED <<corpus, store, agent, assigned, query, status,
                 split_vars, gen_vars, chat, notebook, fn>>

\* One iteration of "for md_file in markdown_files" (lines 139-169): the read
\* of the file returned or raised; a file that fails is logged and skipped.
\* After the last file the batch add is dispatched or the pass finishes.
InitRead(c) ==
  /\ call[c].pc = "read"
  /\ LET loc == call[c]
         files == markdown_files(session[c].docs_path)
         f == files[loc.file_idx]
         l1 == IF f.readable THEN AppendNewChunks(loc, f, 0) ELSE loc
     IN  IF loc.file_idx < Len(files)
           THEN /\ call' = [call EXCEPT ![c] = [l1 EXCEPT !.file_idx = @ + 1]]
                /\ UNCHANGED session
           ELSE AfterFiles(c, l1)
  /\ UNCHANGED <<corpus, store, agent, assigned, query, status,
                 split_vars, gen_vars, chat, notebook, fn>>

\* collection.add returned or raised (lines 172-182); it raises when the
\* batch holds an id twice.  is_initialized becomes true either way.
InitAdd(c) ==
  /\ call[c].pc = "add"
  /\ \E added \in BOOLEAN :
       LET loc == call[c]
           ok == added /\ ~HasDuplicates(loc.ids_to_add)
           l1 == [loc EXCEPT !.submitted = Append(@, loc.ids_to_add),
                             !.store_failed = @ \/ ~ok]
           st == IF ok THEN StoreAdd(store, loc.documents_to_add,
                                     loc.metadatas_to_add, loc.ids_to_add)
                 ELSE store
           ss == [session EXCEPT ![c].is_initialized = TRUE]
       IN  /\ store' = st
           /\ session' = ss
           /\ call' = [call EXCEPT ![c] =
                [AfterIndexing(l1, ss, "complete") EXCEPT
                   !.ids_after = StoreIds(st)]]
  /\ UNCHANGED <<corpus, agent, assigned, query, status, split_vars, gen_vars, chat, notebook, fn>>

\* collection.count of line 320 or 439 returned or raised; the reply
InitCount(c) ==
  /\ call[c].pc = "count"
  /\ \E counted \in BOOLEAN :
       LET loc == call[c] IN
       call' = [call EXCEPT ![c] =
         [loc EXCEPT !.pc = "done",
                     !.store_failed = @ \/ ~counted,
                     !.outcome = Some(
                        IF counted
                          THEN CountedOutcome(loc.kind, session, Val(agent),
                                              StoreCount(store))
                          ELSE ExceptionOutcome(loc.kind))]]
  /\ UNCHANGED <<corpus, store, agent, session, assigned, query, status,
                 split_vars, gen_vars, chat, notebook, fn>>

\* ------------------------------------------------------------------------
\* POST /query and GET /status
\* ------------------------------------------------------------------------
NOT_INITIALIZED_REPLY ==
  [response |-> <<"Agent not initialized. Please call /initialize first.">>,
   code |-> None, status |-> "agent_not_initialized"]

IdleQuery ==
  [pc |-> "idle", self |-> 0, user_query |-> <<>>, context |-> None,
   rag_context_chunks |-> <<>>, final_prompt |-> <<>>, reply |-> None,
   n_search |-> 0, n_model |-> 0, at_start |-> "", expect |-> None]

IdleStatus == [pc |-> "idle", self |-> 0, reply |-> None, expect |-> None]

\* What the requests of the service carry, and what the model answers
ServiceQueries == {<<"Q">>}
ServiceContexts == {None}
ServiceOutcomes ==
  { [kind |-> "raise"],
    [kind |-> "return", response |-> None],
    [kind |-> "return", response |->
       Some([candidates |-> <<[content |-> Some([parts |->
               << <<"Sure.", " ">>,
                  <<FENCE, "python", "\n", "x = 1", "\n", FENCE>> >>])]>>,
             prompt_feedback |-> None])],
    [kind |-> "return", response |->
       Some([candidates |-> <<>>,
             prompt_feedback |-> Some([block_reason |-> 1])])] }

\* The state of the conversation service (spec 4.6), told from what the
\* initialize calls did: no session, the live session's indexing in flight,
\* failed, or complete.
ServiceState ==
  IF agent = None THEN "Uninitialized"
  ELSE LET how == call[Val(agent)].ikb IN
       IF how = "running" THEN "Initializing"
       ELSE IF how = "complete" THEN "Ready"
       ELSE "Failed"

Quiescent == \A c \in Calls : ~InFlight(c)
\* The session constructed by the call that assigned agent last
LastAssigned == IF assigned = <<>> THEN None ELSE Some(assigned[Len(assigned)])

\* The test of line 351 with the flag of the session left out
AgentReady_AnySession(ag, ss) == ag # None

\* "if not agent or not agent.is_initialized"
AgentReady(ag, ss) == ag # None /\ ss[Val(ag)].is_initialized

\* query_agent_endpoint up to its first await or its reply (lines 351-355,
\* 204-210, 188-197): the fixed reply when the agent is not ready, else
\* the retrieval call is dispatched.
QueryStart ==
  /\ query.pc = "idle"
  /\ status.pc = "idle"
  /\ \E user_query \in ServiceQueries, context \in ServiceContexts :
       LET q0 == [query EXCEPT !.user_query = user_query,
                                  !.context = context,
                                  !.at_start = ServiceState,
                                  !.expect = IF Quiescent THEN Some(LastAssigned)
                                             ELSE None]
       IN  IF ~AgentReady(agent, session)
             THEN query' =
                    [q0 EXCEPT !.pc = "done",
                               !.self = IF agent = None THEN 0 ELSE Val(agent),
                               !.reply = Some(NOT_INITIALIZED_REPLY)]
             ELSE LET self == Val(agent) IN
                  IF ~session[self].is_initialized
                    THEN query' =
                           [q0 EXCEPT !.pc = "done", !.self = self,
                              !.reply = Some([response |-> NOT_INITIALIZED_ERROR,
                                 code |-> extract_python_code(NOT_INITIALIZED_ERROR),
                                 status |-> "success"])]
                  ELSE IF session[self].collection = None
                    THEN query' =
                           [q0 EXCEPT !.pc = "model", !.self = self,
                              !.final_prompt = final_prompt(DEFAULT_SYSTEM_PROMPT,
                                                 <<>>, context, user_query)]
                    ELSE query' = [q0 EXCEPT !.pc = "search", !.self = self]
  /\ UNCHANGED <<corpus, store, agent, session, call, assigned, status,
                 split_vars, gen_vars, chat, notebook, fn>>

\* collection.query returned or raised (lines 191-201); the prompt is built
\* and the model call dispatched (lines 211-239).
QuerySearch ==
  /\ query.pc = "search"
  /\ \E found \in BOOLEAN :
       LET rag == IF found THEN StoreQuery(store, N_RESULTS) ELSE <<>> IN
       query' =
         [query EXCEPT !.pc = "model", !.n_search = @ + 1,
                       !.rag_context_chunks = rag,
                       !.final_prompt = final_prompt(DEFAULT_SYSTEM_PROMPT, rag,
                                          query.context, query.user_query)]
  /\ UNCHANGED <<corpus, store, agent, session, call, assigned, status,
                 split_vars, gen_vars, chat, notebook, fn>>

\* generate_content returned or raised (lines 243-259); the code is
\* extracted and the reply made (lines 356-360).
QueryModel ==
  /\ query.pc = "model"
  /\ \E outcome \in ServiceOutcomes :
       LET r == model_response_text(outcome) IN
       query' =
         [query EXCEPT !.pc = "done", !.n_model = @ + 1,
                       !.reply = Some(
                          IF r.raised
                            THEN [response |-> <<"An error occurred: ">>,
                                  code |-> None, status |-> "error"]
                            ELSE [response |-> r.text,
                                  code |-> extract_python_code(r.text),
                                  status |-> "success"])]
  /\ UNCHANGED <<corpus, store, agent, session, call, assigned, status,
                 split_vars, gen_vars, chat, notebook, fn>>

\* The reply is sent; the slot serves the next request
QueryReturn ==
  /\ query.pc = "done"
  /\ query' = IdleQuery
  /\ UNCHANGED <<corpus, store, agent, session, call, assigned, status,
                 split_vars, gen_vars, chat, notebook, fn>>

\* The reply of get_status for an initialized agent (lines 379-386); the
\* fields are read from agent after the count
StatusReply(ag, ss, kb_status) ==
  [agent_status |-> "initialized", docs_path |-> ss[ag].docs_path,
   knowledge_base_status |-> kb_status]

\* get_status up to its await or its reply (lines 365-370, 387)
StatusStart ==
  /\ status.pc = "idle"
  /\ query.pc = "idle"
  /\ LET s0 == [status EXCEPT !.expect = IF Quiescent THEN Some(LastAssigned)
                                         ELSE None]
     IN  IF AgentReady(agent, session)
           THEN IF session[Val(agent)].collection # None
                  THEN status' = [s0 EXCEPT !.pc = "count", !.self = Val(agent)]
                  ELSE status' = [s0 EXCEPT !.pc = "done", !.self = Val(agent),
                         !.reply = Some(StatusReply(Val(agent), session,
                                                    "not loaded or empty"))]
           ELSE status' = [s0 EXCEPT !.pc = "done",
                  !.self = IF agent = None THEN 0 ELSE Val(agent),
                  !.reply = Some([agent_status |-> "not_initialized"])]
  /\ UNCHANGED <<corpus, store, agent, session, call, assigned, query,
                 split_vars, gen_vars, chat, notebook, fn>>

\* collection.count returned or raised (lines 370-377); the reply
StatusCount ==
  /\ status.pc = "count"
  /\ \E counted \in BOOLEAN :
       status' = [status EXCEPT !.pc = "done",
         !.reply = Some(StatusReply(Val(agent), session,
            IF ~counted THEN "loaded, but count unavailable"
            ELSE IF StoreCount(store) > 0
              THEN "loaded with " \o ToString(StoreCount(store)) \o " documents"
              ELSE "loaded but empty"))]
  /\ UNCHANGED <<corpus, store, agent, session, call, assigned, query,
                 split_vars, gen_vars, chat, notebook, fn>>

StatusReturn ==
  /\ status.pc = "done"
  /\ status' = IdleStatus
  /\ UNCHANGED <<corpus, store, agent, session, call, assigned, query,
                 split_vars, gen_vars, chat, notebook, fn>>

\* ------------------------------------------------------------------------
\* Spec: the conversation service
\* ------------------------------------------------------------------------
\* The corpus the service runs on: one readable file of one chunk
ServiceCorpus ==
  << [dir |-> "a", stem |-> "readme", readable |-> TRUE, nchunks |-> 1] >>

Init ==
  /\ corpus = ServiceCorpus
  /\ store = {}
  /\ agent = None
  /\ session = [c \in Calls |-> NoSession]
  /\ call = [c \in Calls |-> IdleCall]
  /\ assigned = <<>>
  /\ query = IdleQuery
  /\ status = IdleStatus
  /\ SplitIdle
  /\ GenIdle
  /\ ChatIdle
  /\ NotebookIdle
  /\ FnIdle

Next ==
  \/ \E c \in Calls : InitStart(c)
  \/ \E c \in Calls : InitOpen(c)
  \/ \E c \in Calls : InitGet(c)
  \/ \E c \in Calls : InitRead(c)
  \/ \E c \in Calls : InitAdd(c)
  \/ \E c \in Calls : InitCount(c)
  \/ QueryStart
  \/ QuerySearch
  \/ QueryModel
  \/ QueryReturn
  \/ StatusStart
  \/ StatusCount
  \/ StatusReturn

Spec == Init /\ [][Next]_vars

\* ------------------------------------------------------------------------
\* SpecIndex: initialize calls made one after the other (spec 5: callers
\* serialize initialize calls), over every bounded corpus
\* ------------------------------------------------------------------------
IndexInit ==
  /\ corpus \in Corpora
  /\ store = {}
  /\ agent = None
  /\ session = [c \in Calls |-> NoSession]
  /\ call = [c \in Calls |-> IdleCall]
  /\ assigned = <<>>
  /\ query = IdleQuery
  /\ status = IdleStatus
  /\ SplitIdle
  /\ GenIdle
  /\ ChatIdle
  /\ NotebookIdle
  /\ FnIdle

IndexStart(c) == Quiescent /\ InitStart(c)

IndexNext ==
  \/ \E c \in Calls : IndexStart(c)
  \/ \E c \in Calls : InitOpen(c)
  \/ \E c \in Calls : InitGet(c)
  \/ \E c \in Calls : InitRead(c)
  \/ \E c \in Calls : InitAdd(c)
  \/ \E c \in Calls : InitCount(c)

SpecIndex == IndexInit /\ [][IndexNext]_vars

\* ------------------------------------------------------------------------
\* Properties of the indexing pass (SpecIndex)
\* ------------------------------------------------------------------------
CallDone(c) == call[c].pc = "done"

\* C4 (as stated): when the corpus path does not exist or is not a
\* directory, indexing ends in the empty-but-initialized state
\* (is_initialized true, nothing added) and the initialize call reports a
\* non-failure outcome, a warning, not an error.
C4_MissingRootIsWarning ==
  \A c \in Calls :
    (CallDone(c) /\ call[c].ikb = "root missing") =>
      /\ session[c].is_initialized
      /\ call[c].submitted = <<>>
      /\ Val(call[c].outcome).status \in {"success", "warning"}

\* C5 (as stated): within one indexing pass the ids submitted in the pass's
\* storage call are pairwise distinct, files of one base name in different
\* subdirectories included, and the collection never holds two chunks with
\* one id.
C5_SubmittedIdsDistinct ==
  /\ \A c \in Calls : \A k \in 1..Len(call[c].submitted) :
       ~HasDuplicates(call[c].submitted[k])
  /\ \A e1, e2 \in store : e1.id = e2.id => e1 = e2

\* A pass of initialize_knowledge_base over the files of corpus that ran to
\* its last line with no call of the store raising
CompletedPass(c) ==
  /\ CallDone(c)
  /\ call[c].ikb = "complete"
  /\ session[c].docs_path = "docs"
  /\ ~call[c].store_failed

C9_NotReadyQueryRefused ==
  (query.pc # "idle" /\ query.at_start # "Ready") =>
    /\ query.pc = "done"
    /\ query.reply = Some(NOT_INITIALIZED_REPLY)
    /\ Val(query.reply).status = "agent_not_initialized"
    /\ Val(query.reply).code = None
    /\ query.n_search = 0
    /\ query.n_model = 0

C9_Witness ==
  /\ query.pc = "done"
  /\ query.at_start = "Initializing"
  /\ ServiceState = "Initializing"
  /\ query.reply = Some(NOT_INITIALIZED_REPLY)

\* The session a request is to use when it starts at a time no initialize
\* call is in flight: 0 stands for no session
ExpectedSession(expect) == IF Val(expect) = None THEN 0 ELSE Val(Val(expect))

\* C10: under any interleaving of initialize calls at most one session is
\* the live global session; once all calls have finished it is the session
\* constructed by the call that assigned agent last, and every query and
\* status request started from then on uses that session.
C10_LastWriterWins ==
  /\ agent # None => (Val(agent) \in Calls /\ session[Val(agent)].made)
  /\ Quiescent => agent = LastAssigned
  /\ (query.pc # "idle" /\ query.expect # None) =>
       query.self = ExpectedSession(query.expect)
  /\ (status.pc # "idle" /\ status.expect # None) =>
       status.self = ExpectedSession(status.expect)
  /\ (status.pc = "done" /\ status.expect # None
        /\ LastAssigned = Val(status.expect)
        /\ "docs_path" \in DOMAIN Val(status.reply)) =>
       Val(status.reply).docs_path = session[status.self].docs_path

\* Call 1 finished after call 2 had assigned agent and reported the state of
\* the session of call 2; the query that follows uses the session of call 2.
C10_Witness ==
  /\ Quiescent
  /\ assigned = <<1, 2>>
  /\ agent = Some(2)
  /\ call[1].docs_path = "missing"
  /\ Val(call[1].outcome).status = "success"
  /\ query.pc = "done"
  /\ query.expect = Some(Some(2))
  /\ query.self = 2
  /\ Val(query.reply).status = "success"

\* ------------------------------------------------------------------------
\* The websocket /chat channel (websocket_chat, lines 389-422)
\* ------------------------------------------------------------------------
\* What a client sends in a frame: a JSON object with or without a query
\* and a context, JSON of another type, or text that is not JSON.  A
\* context of type "number" is a truthy value that cannot be iterated.
ChatFrames ==
  { [json |-> "object", query |-> Some(<<"Q">>), context |-> "null"],
    [json |-> "object", query |-> Some(<<>>), context |-> "null"],
    [json |-> "object", query |-> None, context |-> "null"],
    [json |-> "object", query |-> Some(<<"Q">>), context |-> "number"],
    [json |-> "array", query |-> None, context |-> "null"],
    [json |-> "invalid", query |-> None, context |-> "null"] }

NoChannel ==
  [pc |-> "idle", self |-> 0, data |-> None, pending |-> None,
   outbox |-> <<>>, close_code |-> None, gone |-> FALSE, log |-> <<>>,
   exit |-> "", sent_at_exit |-> 0]

\* The frames the handler sends; frame_no is the number of the inbound
\* frame it answers, 0 before the first one
ChatFrame(response, code, st, frame_no) ==
  [response |-> response, code |-> code, status |-> st, frame_no |-> frame_no]
CHAT_NOT_INITIALIZED ==
  <<"Agent not initialized. Please ensure it's initialized via POST /initialize.">>
QUERY_EMPTY == <<"Query cannot be empty.">>

\* "if not query" with only a missing query caught
EmptyQuery_OnlyMissing(q) == q = None

\* "if not query" for data.get("query")
EmptyQuery(q) == q = None \/ Val(q) = <<>>

\* The except clauses with the one for WebSocketDisconnect left out
OnException_NoDisconnectClause(ch, exc) ==
  [ch EXCEPT !.pc = "send_error", !.exit = exc, !.pending = None,
             !.sent_at_exit = Len(ch.outbox)]

\* The except clauses of lines 411-422: a disconnect is logged and the
\* handler returns; any other exception goes on to send an error frame.
OnException(ch, exc) ==
  IF exc = "WebSocketDisconnect"
    THEN [ch EXCEPT !.pc = "closed", !.exit = exc, !.pending = None,
                    !.sent_at_exit = Len(ch.outbox)]
    ELSE [ch EXCEPT !.pc = "send_error", !.exit = exc, !.pending = None,
                    !.sent_at_exit = Len(ch.outbox)]

\* Lines 211-231 in the handler: building the prompt iterates the context
\* and raises when it cannot; then the model call is dispatched.
ChatAfterSearch(ch) ==
  IF Val(ch.data).context = "number"
    THEN OnException(ch, "TypeError")
    ELSE [ch EXCEPT !.pc = "model"]

\* accept returned (lines 391-396): a service that is not ready sends one
\* frame and closes; else the loop starts to wait for a frame.
ChatAccept ==
  /\ chat.pc = "idle"
  /\ chat' = IF ~AgentReady(agent, session)
               THEN [chat EXCEPT !.pc = "refuse",
                       !.pending = Some(ChatFrame(CHAT_NOT_INITIALIZED, None,
                                                  "error", 0))]
               ELSE [chat EXCEPT !.pc = "receive"]
  /\ UNCHANGED <<svc_vars, split_vars, gen_vars, notebook, fn>>

\* The frame of line 393 was sent or the send raised, which ends the
\* handler; after a send that worked the channel is closed (line 394).
ChatRefuse ==
  /\ chat.pc = "refuse"
  /\ chat' = IF chat.gone
               THEN [chat EXCEPT !.pc = "closed", !.pending = None,
                                 !.exit = "WebSocketDisconnect"]
               ELSE [chat EXCEPT !.pc = "closed", !.pending = None,
                                 !.outbox = Append(@, Val(chat.pending)),
                                 !.sent_at_exit = Len(chat.outbox) + 1,
                                 !.exit = "refused",
                                 !.close_code = Some(1000)]
  /\ UNCHANGED <<svc_vars, split_vars, gen_vars, notebook, fn>>

\* receive_json returned a frame or raised (lines 400-409): validation of
\* the query, then generate_response up to its first await.
ChatReceive ==
  /\ chat.pc = "receive"
  /\ IF chat.gone
       THEN chat' = OnException(chat, "WebSocketDisconnect")
       ELSE
         /\ Len(chat.log) < MaxFrames
         /\ \E data \in ChatFrames :
                 LET n == Len(chat.log) + 1
                     ch == [chat EXCEPT !.data = Some(data),
                              !.log = Append(@, [data |-> data, n_search |-> 0,
                                                 n_model |-> 0])]
                 IN  chat' =
                       IF data.json = "invalid"
                         THEN OnException(ch, "JSONDecodeError")
                       ELSE IF data.json # "object"
                         THEN OnException(ch, "AttributeError")
                       ELSE IF EmptyQuery(data.query)
                         THEN [ch EXCEPT !.pc = "send",
                                 !.pending = Some(ChatFrame(QUERY_EMPTY, None,
                                                    "error_validation", n))]
                       ELSE LET self == Val(agent) IN
                            IF ~session[self].is_initialized
                              THEN [ch EXCEPT !.pc = "send", !.self = self,
                                      !.pending = Some(ChatFrame(
                                         NOT_INITIALIZED_ERROR,
                                         extract_python_code(NOT_INITIALIZED_ERROR),
                                         "success", n))]
                            ELSE IF session[self].collection = None
                              THEN ChatAfterSearch([ch EXCEPT !.self = self])
                              ELSE [ch EXCEPT !.pc = "search", !.self = self]
  /\ UNCHANGED <<svc_vars, split_vars, gen_vars, notebook, fn>>

\* collection.query returned or raised (lines 191-201)
ChatSearch ==
  /\ chat.pc = "search"
  /\ chat' = ChatAfterSearch(
               [chat EXCEPT !.log[Len(chat.log)].n_search = @ + 1])
  /\ UNCHANGED <<svc_vars, split_vars, gen_vars, notebook, fn>>

\* generate_content returned or raised (lines 235-259); the code is
\* extracted and the reply frame made (lines 407-409).
ChatModel ==
  /\ chat.pc = "model"
  /\ \E outcome \in ServiceOutcomes :
       LET r == model_response_text(outcome)
           ch == [chat EXCEPT !.log[Len(chat.log)].n_model = @ + 1]
       IN  chat' =
             IF r.raised THEN OnException(ch, "Exception")
             ELSE [ch EXCEPT !.pc = "send",
                     !.pending = Some(ChatFrame(r.text,
                                        extract_python_code(r.text),
                                        "success", Len(chat.log)))]
  /\ UNCHANGED <<svc_vars, split_vars, gen_vars, notebook, fn>>

\* send_json of lines 404 and 409 returned, or raised because the client
\* has gone; after a send the loop waits for the next frame.
ChatSend ==
  /\ chat.pc = "send"
  /\ chat' = IF chat.gone
               THEN OnException(chat, "WebSocketDisconnect")
               ELSE [chat EXCEPT !.pc = "receive", !.pending = None,
                                 !.data = None,
                                 !.outbox = Append(@, Val(chat.pending))]
  /\ UNCHANGED <<svc_vars, split_vars, gen_vars, notebook, fn>>

\* Lines 414-422: the error frame is sent, a failure of that send is
\* swallowed, and the channel is closed with code 1011.
ChatSendError ==
  /\ chat.pc = "send_error"
  /\ chat' = [chat EXCEPT !.pc = "closed", !.close_code = Some(1011),
                !.outbox = IF chat.gone THEN @
                           ELSE Append(@, ChatFrame(<<"An error occurred: ">>,
                                          None, "error_server", Len(chat.log)))]
  /\ UNCHANGED <<svc_vars, split_vars, gen_vars, notebook, fn>>

\* The client goes away while the channel is open
ClientDisconnect ==
  /\ chat.pc \notin {"idle", "closed"}
  /\ ~chat.gone
  /\ chat' = [chat EXCEPT !.gone = TRUE]
  /\ UNCHANGED <<svc_vars, split_vars, gen_vars, notebook, fn>>

\* ------------------------------------------------------------------------
\* SpecChat: one chat channel, an initialize call before it is opened and
\* one while it is open
\* ------------------------------------------------------------------------
ChatInit ==
  /\ corpus = ServiceCorpus
  /\ store = {}
  /\ agent = None
  /\ session = [c \in Calls |-> NoSession]
  /\ call = [c \in Calls |-> IdleCall]
  /\ assigned = <<>>
  /\ query = IdleQuery
  /\ status = IdleStatus
  /\ chat = NoChannel
  /\ SplitIdle
  /\ GenIdle
  /\ NotebookIdle
  /\ FnIdle

\* The initialize call is made before the channel is opened.  With one call
\* on an empty collection the fetch of the stored ids is never reached.
ChatInitialize ==
  /\ chat.pc = "idle"
  /\ \/ InitStart(1)
     \/ InitOpen(1)
     \/ InitRead(1)
     \/ InitAdd(1)
     \/ InitCount(1)

\* A second initialize call is made while the channel is open: it replaces
\* the live session (line 313) and indexes next to the handler of the channel
ChatReinitialize ==
  /\ chat.pc # "idle"
  /\ \/ InitStart(2)
     \/ InitOpen(2)
     \/ InitGet(2)
     \/ InitRead(2)
     \/ InitAdd(2)
     \/ InitCount(2)

ChatNext ==
  \/ ChatInitialize
  \/ ChatReinitialize
  \/ ChatAccept
  \/ ChatRefuse
  \/ ChatReceive
  \/ ChatSearch
  \/ ChatModel
  \/ ChatSend
  \/ ChatSendError
  \/ ClientDisconnect

SpecChat == ChatInit /\ [][ChatNext]_vars

\* The outbound frames that answer inbound frame k
FramesFor(k) == {i \in 1..Len(chat.outbox) : chat.outbox[i].frame_no = k}
\* Inbound frame k has been dealt with: the loop is back at receive_json or
\* a later frame has arrived
FrameHandled(k) ==
  k < Len(chat.log) \/ (k = Len(chat.log) /\ chat.pc = "receive")
QueryMissingOrEmpty(data) ==
  data.json = "object" /\ (data.query = None \/ data.query = Some(<<>>))

\* C11: on an open chat channel every inbound frame whose query is missing
\* or empty produces exactly one outbound frame, of status error_validation,
\* and no retrieval call and no model call, and the channel stays open (the
\* handler goes back to waiting for a frame): every frame handled on it, the
\* later ones included, is answered by one frame.
C11_EmptyQueryKeepsChannel ==
  /\ \A k \in 1..Len(chat.log) :
       QueryMissingOrEmpty(chat.log[k].data) =>
         /\ chat.log[k].n_search = 0
         /\ chat.log[k].n_model = 0
         /\ \A i \in FramesFor(k) : chat.outbox[i].status = "error_validation"
         /\ Cardinality(FramesFor(k)) <= 1
         /\ FrameHandled(k) => Cardinality(FramesFor(k)) = 1
         /\ (k = Len(chat.log) /\ chat.exit = "") =>
              /\ chat.pc \in {"send", "receive"}
              /\ chat.close_code = None
  /\ \A k \in 1..Len(chat.log) :
       FrameHandled(k) => Cardinality(FramesFor(k)) = 1

\* An empty query was answered with a validation error and the frame after
\* it with a reply of the model.
C11_Witness ==
  /\ chat.pc = "receive"
  /\ Len(chat.log) = 2
  /\ chat.log[1].data.query = Some(<<>>)
  /\ chat.log[2].n_model = 1
  /\ Len(chat.outbox) = 2
  /\ chat.outbox[1].status = "error_validation"
  /\ chat.outbox[2].status = "success"
  /\ chat.outbox[2].code = Some(<<"x = 1">>)

ErrorFrames == {i \in 1..Len(chat.outbox) : chat.outbox[i].status = "error_server"}

\* C12: when handling a frame raises an unexpected exception the server
\* pushes one error frame to the connected client, then closes the channel
\* with code 1011 and handles no further frame; when the client disconnects
\* the server leaves the loop without sending a frame and without closing
\* with an error code.
C12_FaultClosesDisconnectLeaves ==
  /\ chat.exit \in {"TypeError", "AttributeError", "JSONDecodeError", "Exception"} =>
       /\ chat.pc \in {"send_error", "closed"}
       /\ chat.pc = "closed" =>
            /\ chat.close_code = Some(1011)
            /\ Cardinality(ErrorFrames) <= 1
            /\ ~chat.gone =>
                 /\ ErrorFrames = {Len(chat.outbox)}
                 /\ Len(chat.outbox) = chat.sent_at_exit + 1
            /\ chat.gone => Len(chat.outbox) = chat.sent_at_exit
  /\ chat.exit = "WebSocketDisconnect" =>
       /\ chat.pc = "closed"
       /\ chat.close_code = None
       /\ Len(chat.outbox) = chat.sent_at_exit
       /\ ErrorFrames = {}
  /\ chat.close_code = Some(1011) =>
       chat.exit \notin {"", "refused", "WebSocketDisconnect"}

\* The context of the second frame could not be iterated: one reply, then
\* one error frame, then the close with 1011.
C12_Witness ==
  /\ chat.pc = "closed"
  /\ chat.exit = "TypeError"
  /\ ~chat.gone
  /\ chat.close_code = Some(1011)
  /\ Len(chat.log) = 2
  /\ chat.log[2].n_search = 1
  /\ Len(chat.outbox) = 2
  /\ chat.outbox[1].status = "success"
  /\ chat.outbox[2].status = "error_server"

\* The client went away while the model was answering.
C12_WitnessDisconnect ==
  /\ chat.pc = "closed"
  /\ chat.exit = "WebSocketDisconnect"
  /\ Len(chat.log) = 1
  /\ chat.log[1].n_model = 1
  /\ chat.outbox = <<>>

\* ------------------------------------------------------------------------
\* The notebook clients (jupyter_extension.py): conversation history of the
\* magics and of the widget
\* ------------------------------------------------------------------------
MAX_CONTEXT_HISTORY == 5

\* history[-n:] of Python: the last n entries, the whole list when n = 0
LastEntries(history, n) ==
  IF n = 0 \/ n >= Len(history) THEN history
  ELSE SubSeq(history, Len(history) - n + 1, Len(history))

\* The trim with nothing cut off
add_to_context_NoEviction(context_history, role, content) ==
  Append(context_history, [role |-> role, content |-> content])

\* VectorBTProMagics._add_to_context
add_to_context(context_history, role, content) ==
  Append(IF Len(context_history) >= MAX_CONTEXT_HISTORY * 2
           THEN LastEntries(context_history, MAX_CONTEXT_HISTORY * 2 - 2)
           ELSE context_history,
         [role |-> role, content |-> content])

\* VectorBTProWidget._add_to_widget_context
add_to_widget_context(context_history, role, content) ==
  Append(IF Len(context_history) >= MAX_CONTEXT_HISTORY * 2
           THEN LastEntries(context_history, MAX_CONTEXT_HISTORY * 2 - 2)
           ELSE context_history,
         [role |-> role, content |-> content])

\* A client as constructed; sent is the record of every message the client
\* ever put into its history, attempts and replies count the queries made
\* and the queries that got an HTTP reply. The widget also holds the code
\* of the latest reply and its button (lines 187-188); buttons is the list
\* of the Execute Code buttons on display, each with the code shown with it,
\* and clicks is the record of every click: the button and the code it ran
NewClient(kind) ==
  [client |-> kind, context_history |-> <<>>, sent |-> <<>>,
   attempts |-> 0, replies |-> 0, payload_context |-> <<>>,
   current_code_to_run |-> None, current_execute_button |-> None,
   buttons |-> <<>>, clicks |-> <<>>]

\* How a query can go: the cell or input is empty; the request fails (time
\* out, connection error, HTTP error status) or its body is not JSON; the
\* reply holds a response text, with or without code, or lacks the key.
HttpOutcomes == {"empty query", "request failed", "not json",
                 "reply", "reply with code", "reply without response"}
NO_RESPONSE_TEXT == "No response text received."

\* The text of query number n of a client
QueryText(n) == "query " \o ToString(n)
\* result.get("response", "No response text received.")
AgentResponseText(outcome, n) ==
  IF outcome \in {"reply", "reply with code"}
    THEN "answer " \o ToString(n) ELSE NO_RESPONSE_TEXT
\* result.get("code") of the reply to query number n
CodeText(outcome, n) ==
  IF outcome = "reply with code" THEN Some("code " \o ToString(n)) ELSE None

\* %%vectorbt_expert (lines 72-103 and the except clauses): one query
\* through the magics, from the cell to the update of the history
vectorbt_expert ==
  /\ notebook.client = "magics"
  /\ notebook.attempts < MaxAttempts
  /\ \E outcome \in HttpOutcomes :
       LET n == notebook.attempts + 1
           nb == [notebook EXCEPT !.attempts = n]
       IN  notebook' =
             IF outcome = "empty query" THEN nb
             ELSE IF outcome \in {"request failed", "not json"}
               THEN [nb EXCEPT !.payload_context = notebook.context_history]
             ELSE LET text == AgentResponseText(outcome, n)
                      h1 == add_to_context(notebook.context_history, "user",
                                           QueryText(n))
                      h2 == add_to_context(h1, "assistant", text)
                  IN  [nb EXCEPT !.payload_context = notebook.context_history,
                                 !.context_history = h2,
                                 !.replies = @ + 1,
                                 !.sent = @ \o <<[role |-> "user",
                                                  content |-> QueryText(n)],
                                                 [role |-> "assistant",
                                                  content |-> text]>>]
  /\ UNCHANGED <<svc_vars, split_vars, gen_vars, chat, fn>>

\* _on_submit and _process_query (lines 197-206, 243-283): one query
\* through the widget. A query that is not empty first forgets the current
\* button and its code (lines 246-249; the button stays on display); a
\* reply stores its code, and a reply with code puts up a new button.
process_query ==
  /\ notebook.client = "widget"
  /\ notebook.attempts < MaxAttempts
  /\ \E outcome \in HttpOutcomes :
       /\ outcome = "reply with code" => Len(notebook.buttons) < MaxButtons
       /\ LET n == notebook.attempts + 1
               nb == [notebook EXCEPT !.attempts = n]
               nb0 == IF notebook.current_execute_button # None
                        THEN [nb EXCEPT !.current_execute_button = None,
                                        !.current_code_to_run = None]
                        ELSE nb
           IN  notebook' =
             IF outcome = "empty query" THEN nb
             ELSE IF outcome \in {"request failed", "not json"}
               THEN [nb0 EXCEPT !.payload_context = notebook.context_history]
             ELSE LET text == AgentResponseText(outcome, n)
                      code == CodeText(outcome, n)
                      h1 == add_to_widget_context(notebook.context_history,
                                                  "user", QueryText(n))
                      h2 == add_to_widget_context(h1, "assistant", text)
                  IN  [nb0 EXCEPT !.payload_context = notebook.context_history,
                                  !.context_history = h2,
                                  !.replies = @ + 1,
                                  !.sent = @ \o <<[role |-> "user",
                                                   content |-> QueryText(n)],
                                                  [role |-> "assistant",
                                                   content |-> text]>>,
                                  !.current_code_to_run = code,
                                  !.buttons =
                                    IF code # None THEN Append(@, Val(code))
                                    ELSE @,
                                  !.current_execute_button =
                                    IF code # None
                                      THEN Some(Len(notebook.buttons) + 1)
                                    ELSE @]
  /\ UNCHANGED <<svc_vars, split_vars, gen_vars, chat, fn>>

\* _execute_code_button_clicked (lines 208-241): a click on button b, any
\* of the buttons on display. It runs the code the widget holds, not a code
\* kept with b, then forgets that code, and forgets the current button when
\* b is that button.
execute_code_button_clicked ==
  /\ notebook.client = "widget"
  /\ Len(notebook.clicks) < MaxClicks
  /\ \E b \in 1..Len(notebook.buttons) :
       LET code_to_run == notebook.current_code_to_run
       IN  notebook' =
             [notebook EXCEPT
                !.clicks = Append(@, [button |-> b, ran |-> code_to_run]),
                !.current_code_to_run = None,
                !.current_execute_button =
                  IF @ = Some(b) THEN None ELSE @]
  /\ UNCHANGED <<svc_vars, split_vars, gen_vars, chat, fn>>

\* ------------------------------------------------------------------------
\* SpecNotebook: queries through the magics or through the widget
\* ------------------------------------------------------------------------
NotebookInit ==
  /\ notebook \in {NewClient("magics"), NewClient("widget")}
  /\ SplitIdle
  /\ GenIdle
  /\ ServiceIdle
  /\ ChatIdle
  /\ FnIdle

NotebookNext ==
  \/ vectorbt_expert
  \/ process_query
  \/ execute_code_button_clicked

SpecNotebook == NotebookInit /\ [][NotebookNext]_vars

\* C13: after any sequence of queries through the magics, and likewise
\* through the widget, the history never holds more than
\* 2 * MAX_CONTEXT_HISTORY entries, eviction removes the oldest entries first,
\* and after every completed query that got an HTTP reply the history is
\* exactly the most recent min(2n, 2K) messages in their original order.
C13_HistoryBounded ==
  LET h == notebook.context_history
      n == notebook.replies
      m == IF 2 * n < 2 * MAX_CONTEXT_HISTORY THEN 2 * n
           ELSE 2 * MAX_CONTEXT_HISTORY
  IN  /\ Len(h) <= 2 * MAX_CONTEXT_HISTORY
      /\ Len(notebook.sent) = 2 * n
      /\ Len(h) = m
      /\ h = SubSeq(notebook.sent, 2 * n - m + 1, 2 * n)

\* The seventh reply has come in: the first two turns are evicted
C13_Witness ==
  /\ notebook.client = "widget"
  /\ notebook.replies = 7
  /\ Len(notebook.context_history) = 10
  /\ notebook.context_history[1] = notebook.sent[5]
  /\ notebook.context_history[10].content = NO_RESPONSE_TEXT

\* ------------------------------------------------------------------------
\* Further properties of the initialize operation (SpecIndex)
\* ------------------------------------------------------------------------
\* What POST /initialize reported for call c
Reported(c) == Val(call[c].outcome)
HttpDone(c) == CallDone(c) /\ call[c].kind = "http"
\* The pass of call c ran to its last line and the count after it returned
\* although a fetch of the stored ids or the batch add had failed
FetchOrAddFailed(c) ==
  /\ call[c].ikb = "complete"
  /\ call[c].store_failed
  /\ Reported(c).detail # "exception"

\* C14 (as stated): no storage error (failure to open the collection, to
\* fetch the existing ids, of the batch add) ever makes the initialize
\* operation report failure; it fails only for a missing credential or a
\* missing corpus.
C14_StorageErrorNeverFails ==
  \A c \in Calls :
    HttpDone(c) =>
      /\ call[c].ikb = "open failed" => Reported(c).status # "error"
      /\ FetchOrAddFailed(c) => Reported(c).status # "error"

\* C14 (amended): the initialize operation reports failure for a missing
\* credential (400) and, with 500, for a missing corpus root, an exception
\* while the session is constructed, a failure to open the collection and
\* a count of the collection that raises; a failed fetch of the existing
\* ids or a failed batch add never makes it report failure.
C14_FailureCauses ==
  \A c \in Calls :
    HttpDone(c) =>
      /\ Reported(c).status = "error" =>
           \/ call[c].gemini_api_key = "" /\ Reported(c).code = 400
           \/ /\ Reported(c).code = 500
              /\ \/ call[c].ikb \in {"none", "open failed", "root missing", "raised"}
                 \/ Reported(c).detail = "exception"
      /\ call[c].ikb = "open failed" =>
           Reported(c).status = "error" /\ Reported(c).code = 500
      /\ FetchOrAddFailed(c) => Reported(c).status \in {"success", "warning"}

\* The batch add failed and the call reported a warning
C14_Witness ==
  /\ HttpDone(1)
  /\ FetchOrAddFailed(1)
  /\ call[1].submitted # <<>>
  /\ Reported(1).status = "warning"
  /\ HttpDone(2)
  /\ call[2].ikb = "open failed"
  /\ Reported(2).code = 500

\* ------------------------------------------------------------------------
\* SpecSearch: search_knowledge_base, called on its own and from
\* generate_response, on a session in any state of its two fields
\* ------------------------------------------------------------------------
NoRet ==
  [chunks |-> None, raised |-> FALSE, store_raised |-> FALSE, n_store |-> 0,
   n_model |-> 0, final_prompt |-> None, outcome |-> None, text |-> None]

\* The except clause of search_knowledge_base left out: the error of the
\* store leaves the function
SearchResult_Propagates(found, documents) ==
  IF found THEN [raised |-> FALSE, chunks |-> documents]
  ELSE [raised |-> TRUE, chunks |-> <<>>]

\* Lines 191-201: the documents the store returned, or the empty list when
\* collection.query raised
SearchResult(found, documents) ==
  IF found THEN [raised |-> FALSE, chunks |-> documents]
  ELSE [raised |-> FALSE, chunks |-> <<>>]

\* generate_response after search_knowledge_base returned chunks (lines
\* 211-239): the prompt is built and the model call dispatched
AfterSearch(f, chunks) ==
  [f EXCEPT !.pc = "model", !.ret.chunks = Some(chunks),
            !.ret.final_prompt =
               Some(final_prompt(DEFAULT_SYSTEM_PROMPT, chunks, None,
                                 f.args.user_query))]

SearchInit ==
  /\ fn \in [pc : {"call"},
             args : [entry : {"search_knowledge_base", "generate_response"},
                     is_initialized : BOOLEAN,
                     collection : {None, Some(COLLECTION_NAME)},
                     user_query : Queries,
                     documents : SeqsUpTo(ChunkTexts, MaxRetrieved)],
             ret : {NoRet}]
  /\ SplitIdle
  /\ GenIdle
  /\ ServiceIdle
  /\ ChatIdle
  /\ NotebookIdle

\* The call up to its first await or its return: the guards of lines 204
\* and 188
SearchCall ==
  /\ fn.pc = "call"
  /\ LET ready == fn.args.is_initialized /\ fn.args.collection # None IN
     fn' =
       IF fn.args.entry = "generate_response" /\ ~fn.args.is_initialized
         THEN [fn EXCEPT !.pc = "done", !.ret.text = Some(NOT_INITIALIZED_ERROR)]
       ELSE IF ready THEN [fn EXCEPT !.pc = "query"]
       ELSE IF fn.args.entry = "search_knowledge_base"
         THEN [fn EXCEPT !.pc = "done", !.ret.chunks = Some(<<>>)]
       ELSE AfterSearch(fn, <<>>)
  /\ UNCHANGED <<svc_vars, split_vars, gen_vars, chat, notebook>>

\* collection.query returned or raised
SearchStoreReturn ==
  /\ fn.pc = "query"
  /\ \E found \in BOOLEAN :
       LET r == SearchResult(found, fn.args.documents)
           f == [fn EXCEPT !.ret.n_store = @ + 1, !.ret.store_raised = ~found]
       IN  fn' =
             IF r.raised THEN [f EXCEPT !.pc = "done", !.ret.raised = TRUE]
             ELSE IF fn.args.entry = "search_knowledge_base"
               THEN [f EXCEPT !.pc = "done", !.ret.chunks = Some(r.chunks)]
             ELSE AfterSearch(f, r.chunks)
  /\ UNCHANGED <<svc_vars, split_vars, gen_vars, chat, notebook>>

\* generate_content returned or raised (lines 235-259)
SearchModelReturn ==
  /\ fn.pc = "model"
  /\ \E outcome \in ServiceOutcomes :
       LET r == model_response_text(outcome) IN
       fn' = [fn EXCEPT !.pc = "done", !.ret.n_model = @ + 1,
                        !.ret.outcome = Some(outcome),
                        !.ret.raised = r.raised,
                        !.ret.text = Some(r.text)]
  /\ UNCHANGED <<svc_vars, split_vars, gen_vars, chat, notebook>>

SearchNext ==
  \/ SearchCall
  \/ SearchStoreReturn
  \/ SearchModelReturn

SpecSearch == SearchInit /\ [][SearchNext]_vars

\* C15: search_knowledge_base never propagates an error: it returns the
\* empty sequence without calling the store when the knowledge base is not
\* initialized, and the empty sequence when the store query raises; in the
\* latter case generate_response still calls the model, with the context
\* block omitted from the prompt, and returns its normalized response.
C15_SearchNeverPropagates ==
  fn.pc = "done" =>
    /\ ~fn.ret.raised
    /\ fn.args.entry = "search_knowledge_base" =>
         /\ fn.ret.chunks # None
         /\ (~fn.args.is_initialized \/ fn.args.collection = None) =>
              fn.ret.chunks = Some(<<>>) /\ fn.ret.n_store = 0
         /\ fn.ret.store_raised => fn.ret.chunks = Some(<<>>)
         /\ fn.ret.n_model = 0
    /\ (fn.args.entry = "generate_response" /\ fn.ret.store_raised) =>
         /\ fn.ret.n_model = 1
         /\ fn.ret.final_prompt =
              Some(DEFAULT_SYSTEM_PROMPT \o <<"\n", "\n", "User query: ">>
                     \o fn.args.user_query \o <<"\n", "\n", "Answer:", "\n">>)
         /\ fn.ret.text = Some(model_response_text(Val(fn.ret.outcome)).text)

\* The store raised while it held documents; the model answered all the same
C15_Witness ==
  /\ fn.pc = "done"
  /\ fn.args.entry = "generate_response"
  /\ fn.args.documents = << <<"doc A">> >>
  /\ fn.ret.store_raised
  /\ fn.ret.chunks = Some(<<>>)
  /\ fn.ret.n_model = 1
  /\ fn.ret.text = Some(<<"Sure.", " ", FENCE, "python", "\n", "x = 1", "\n", FENCE>>)

\* ------------------------------------------------------------------------
\* SpecExtract: extract_python_code applied to response texts made of prose
\* and fenced blocks
\* ------------------------------------------------------------------------
\* The inner content of a fenced block: its lines, each with its line
\* break; none at all, only whitespace, or code
InnerContents ==
  { <<>>, <<"\n">>, <<" ", "\n">>, <<"x = 1", "\n">>,
    <<"\n", "y = 2", " ", "\n">> }
\* A fenced block tagged python: the opening line, the content, the closing
\* fence
PythonBlock(inner) == <<FENCE, "python", "\n">> \o inner \o <<FENCE>>
\* Text around the blocks: prose, and a fenced block with no tag
Proses == { <<>>, <<"Sure.", " ">>, <<"Then:", "\n">>,
            <<FENCE, "\n", "text", "\n", FENCE, "\n">> }

\* The response text: prose, then each block followed by prose
RECURSIVE ResponseText(_, _)
ResponseText(blocks, proses) ==
  IF blocks = <<>> THEN Head(proses)
  ELSE Head(proses) \o PythonBlock(Head(blocks))
         \o ResponseText(Tail(blocks), Tail(proses))

ExtractInit ==
  /\ \E blocks \in SeqsUpTo(InnerContents, MaxBlocks) :
       \E proses \in [1..(Len(blocks) + 1) -> Proses] :
         fn = [pc |-> "call",
               args |-> [blocks |-> blocks, text |-> ResponseText(blocks, proses)],
               ret |-> None]
  /\ SplitIdle
  /\ GenIdle
  /\ ServiceIdle
  /\ ChatIdle
  /\ NotebookIdle

ExtractCall ==
  /\ fn.pc = "call"
  /\ fn' = [fn EXCEPT !.pc = "done", !.ret = extract_python_code(fn.args.text)]
  /\ UNCHANGED <<svc_vars, split_vars, gen_vars, chat, notebook>>

ExtractNext == ExtractCall

SpecExtract == ExtractInit /\ [][ExtractNext]_vars

\* C16 (as stated): for a response text with one fenced block tagged python,
\* a block with empty or whitespace-only content included,
\* extract_python_code returns exactly the block's inner content with
\* leading and trailing whitespace trimmed; with no such block it returns
\* nothing; with several blocks it returns the first one.
C16_ExtractsFirstBlock ==
  fn.pc = "done" =>
    IF fn.args.blocks = <<>> THEN fn.ret = None
    ELSE fn.ret = Some(strip(fn.args.blocks[1]))

\* The calls that started before call c and constructed their session
EarlierAssigned(c) == {assigned[i] : i \in 1..Len(assigned)} \cap 1..(c - 1)
\* The session that was live when call c started, calls being made one
\* after the other
PriorLive(c) ==
  IF EarlierAssigned(c) = {} THEN None
  ELSE Some(CHOOSE d \in EarlierAssigned(c) : \A e \in EarlierAssigned(c) : e <= d)
Constructed(c) == \E i \in 1..Len(assigned) : assigned[i] = c
\* Call c has returned and no call was made after it
LatestReturned(c) ==
  /\ CallDone(c)
  /\ \A d \in Calls : d > c => call[d].pc = "idle"

\* C17 (as stated): every initialize call with a non-empty credential
\* discards the prior session: after the call returns, a failure while
\* constructing the new session or opening the collection included, the live
\* session is never the session that was live before the call, and a failed
\* initialize on a Ready service leaves the service not Ready.
C17_PriorSessionDiscarded ==
  \A c \in Calls :
    (LatestReturned(c) /\ call[c].gemini_api_key # "" /\ PriorLive(c) # None) =>
      /\ agent # PriorLive(c)
      /\ Reported(c).status = "error" => ServiceState # "Ready"

\* C17 (amended): an initialize call with a non-empty credential replaces
\* the prior session when the new session is constructed: after it returns
\* the live session is the one it constructed, which is initialized only
\* if its indexing pass completed (a failure to open the collection leaves
\* it not initialized).  When constructing the new session raises, the call
\* reports failure and the prior session stays the live one, as it was.
C17_ReplacedWhenConstructed ==
  \A c \in Calls :
    (LatestReturned(c) /\ call[c].gemini_api_key # "") =>
      /\ Constructed(c) =>
           /\ agent = Some(c)
           /\ agent # PriorLive(c)
           /\ session[c].is_initialized <=> call[c].ikb = "complete"
           /\ call[c].ikb = "open failed" => ServiceState # "Ready"
      /\ ~Constructed(c) =>
           /\ agent = PriorLive(c)
           /\ Reported(c).status = "error"
           /\ \A d \in EarlierAssigned(c) :
                session[d].is_initialized <=> call[d].ikb = "complete"

\* Call 1 left the service Ready, constructing the session of call 2 raised:
\* the session of call 1 is still the live one.
C17_Witness ==
  /\ LatestReturned(2)
  /\ call[2].gemini_api_key # ""
  /\ ~Constructed(2)
  /\ agent = Some(1)
  /\ session[1].is_initialized
  /\ ServiceState = "Ready"
  /\ Reported(2).code = 500

\* initialize_knowledge_base of call c has returned
PassReturned(c) == call[c].ikb \in {"open failed", "root missing", "complete"}

\* C18: when initialize_knowledge_base returns, is_initialized is false if
\* and only if opening the collection failed or the corpus root is missing;
\* in every other outcome of the pass (no source documents, every chunk
\* skipped as already present, a file that fails to read, a failed fetch of
\* the existing ids, a failed batch add) it is true.
C18_FlagAfterPass ==
  \A c \in Calls :
    PassReturned(c) =>
      /\ ~session[c].is_initialized <=>
           call[c].ikb \in {"open failed", "root missing"}
      /\ call[c].ikb = "open failed" <=> session[c].collection = None
      /\ (call[c].ikb = "root missing") =>
           ~(PathExists(session[c].docs_path) /\ PathIsDir(session[c].docs_path))
      /\ (call[c].ikb = "complete") =>
           /\ session[c].is_initialized
           /\ PathIsDir(session[c].docs_path)

\* The second pass found every chunk stored already, after a fetch of the
\* ids that the first pass never made, and skipped a file it could not read
C18_Witness ==
  /\ PassReturned(2)
  /\ call[2].ikb = "complete"
  /\ session[2].docs_path = "docs"
  /\ call[2].submitted = <<>>
  /\ ~call[2].store_failed
  /\ call[1].submitted # <<>>
  /\ \E k \in 1..Len(corpus) : ~corpus[k].readable
  /\ session[2].is_initialized

\* The files of the corpus that call c has read so far, and the batch
\* entries (document, metadata, id) they owe: the chunks of the readable
\* ones whose id was not among the fetched ids
OwedEntries(c, nfiles) ==
  { <<ChunkText(corpus[p[1]], p[2]), [source |-> RelPath(corpus[p[1]])],
      doc_id(corpus[p[1]], p[2])>> :
      p \in { q \in (1..nfiles) \X (0..MaxChunks) :
                /\ corpus[q[1]].readable
                /\ q[2] < corpus[q[1]].nchunks
                /\ doc_id(corpus[q[1]], q[2]) \notin call[c].existing_ids } }
BatchEntries(c) ==
  { <<call[c].documents_to_add[i], call[c].metadatas_to_add[i],
      call[c].ids_to_add[i]>> : i \in 1..Len(call[c].ids_to_add) }

\* C19: during an indexing pass a failure while reading or processing one
\* file does not stop the pass: the new chunks of every other file are
\* still put into the batch, the batch is submitted in at most one storage
\* call made after all files were processed, and the documents, metadata and
\* ids of the batch have equal length with entry i of each describing the
\* same chunk.  After a pass in which no call of the store failed, every
\* chunk of every file that could be read is stored.
C19_BatchAfterAllFiles ==
  \A c \in Calls :
    /\ Len(call[c].submitted) <= 1
    /\ Len(call[c].documents_to_add) = Len(call[c].ids_to_add)
    /\ Len(call[c].metadatas_to_add) = Len(call[c].ids_to_add)
    /\ call[c].pc = "read" =>
         BatchEntries(c) = OwedEntries(c, call[c].file_idx - 1)
    /\ call[c].pc = "add" =>
         /\ call[c].file_idx = Len(corpus)
         /\ call[c].submitted = <<>>
         /\ BatchEntries(c) = OwedEntries(c, Len(corpus))
    /\ call[c].submitted # <<>> => call[c].ikb = "complete"
    /\ CompletedPass(c) =>
         \A k \in 1..Len(corpus) : \A j \in 0..MaxChunks :
           (corpus[k].readable /\ j < corpus[k].nchunks) =>
             doc_id(corpus[k], j) \in call[c].ids_after

\* The first file could not be read; the chunks of the second are in the
\* batch that is about to be submitted
C19_Witness ==
  /\ call[1].pc = "add"
  /\ Len(corpus) = 2
  /\ ~corpus[1].readable
  /\ corpus[2].readable
  /\ call[1].ids_to_add = <<doc_id(corpus[2], 0), doc_id(corpus[2], 1)>>
  /\ call[1].metadatas_to_add[2] = [source |-> RelPath(corpus[2])]

\* ------------------------------------------------------------------------
\* Concurrent initialize calls (Spec)
\* ------------------------------------------------------------------------
\* Whether the reply of call c says that a session is initialized
ReportsInitialized(c) ==
  IF call[c].kind = "http" THEN Reported(c).status \in {"success", "warning"}
  ELSE Reported(c).status = "success"

\* C20 (as stated): under any interleaving of concurrent initialize calls
\* the outcome a call reports describes the session that this call itself
\* constructed and indexed, never the state of a session that another call
\* installed while this call was waiting.
C20_OutcomeOfOwnSession ==
  \A c \in Calls :
    (CallDone(c) /\ Constructed(c) /\ Reported(c).detail # "exception") =>
      (ReportsInitialized(c) <=> session[c].is_initialized)

\* ------------------------------------------------------------------------
\* The Execute Code buttons of the widget
\* ------------------------------------------------------------------------
\* The code on display with button b
DisplayedCode(b) == notebook.buttons[b]
\* The code of button b was run by a click before click number i
RunBefore(b, i) ==
  \E j \in 1..(i - 1) : notebook.clicks[j].ran = Some(DisplayedCode(b))

\* C21: in the widget, after any sequence of queries and clicks, a click on
\* an Execute Code button runs the code that was displayed with that button
\* and never the code of another reply, and a button whose code was not yet
\* run still has its code when it is clicked.
C21_ButtonRunsItsCode ==
  notebook # None =>
    \A i \in 1..Len(notebook.clicks) :
      LET b == notebook.clicks[i].button
          ran == notebook.clicks[i].ran
      IN  /\ ran # None => ran = Some(DisplayedCode(b))
          /\ ~RunBefore(b, i) => ran # None

\* ------------------------------------------------------------------------
\* What a reply with status success carries
\* ------------------------------------------------------------------------
FIXED_ERROR_STRINGS == {NOT_INITIALIZED_ERROR, CONNECT_ERROR}
\* The frames with status success the channel has sent or is about to send
SuccessFrames ==
  {chat.outbox[i] : i \in {j \in 1..Len(chat.outbox) :
                              chat.outbox[j].status = "success"}}
    \cup (IF chat.pending # None /\ Val(chat.pending).status = "success"
            THEN {Val(chat.pending)} ELSE {})

\* C22: a reply with status success, from the query operation or from the
\* chat channel, carries text produced by the model and never one of the two
\* fixed error strings of generate_response, also when the live session was
\* replaced by an uninitialized one while the channel is open and when the
\* model call fails.
C22_SuccessCarriesModelText ==
  /\ \A f \in SuccessFrames : f.response \notin FIXED_ERROR_STRINGS
  /\ (query.reply # None /\ Val(query.reply).status = "success") =>
        Val(query.reply).response \notin FIXED_ERROR_STRINGS

\* ------------------------------------------------------------------------
\* C23: every chunk _split_text returns holds at least one word (no chunk
\* is the empty string), for every text and every max_chunk_size, also when
\* the first word is longer than max_chunk_size.
\* ------------------------------------------------------------------------
C23_NoEmptyChunk ==
  SplitReturned =>
    \A i \in 1..Len(split_ret.chunks) :
      /\ split_ret.chunks[i] # <<>>
      /\ str_split(split_ret.chunks[i]) # <<>>

====
